---- MODULE Spec2Model ----
(***************************************************************************)
(* A model of the mutation engine of crm/schema.py: the validators, the    *)
(* single-record mutations and BulkCreateCustomers with its per-item       *)
(* savepoints, over a relational store with transactions.                  *)
(*                                                                         *)
(* Strings are sequences of one-character strings, so that str.strip(),    *)
(* the case folding of email__iexact and the match of PHONE_RE are         *)
(* computed character by character.  Stored decimal amounts are integers   *)
(* counting hundredths; a price argument counts thousandths.               *)
(*                                                                         *)
(* Every database statement may fail (a storage fault); the place of the   *)
(* fault is an input of the action, drawn with \E like the arguments.      *)
(***************************************************************************)
EXTENDS Integers, Sequences, FiniteSets, TLC

VARIABLES
    uniqueEmail,   \* the unique constraint the Customer table carries on email
    customers,     \* the committed Customer table, a sequence of rows
    pc,            \* "idle", "loop" inside BulkCreateCustomers.mutate, "done"
    n,             \* len(customers) of the running bulk call
    idx,           \* enumerate()'s index of the next item
    tx,            \* the Customer table as seen inside the open transaction
    created_objs,  \* BulkCreateCustomers.mutate's created_objs
    createdIn,     \* history: the input index and email of each object appended
                   \* to created_objs by the running (or last) bulk call
    errors,        \* BulkCreateCustomers.mutate's errors
    resp,          \* the outcome of the last mutation call
    products,      \* the committed Product table
    orders,        \* the committed Order table
    links,         \* the committed Order-Product association: <<order, product>>
    inflight       \* the createCustomer requests running side by side: for each,
                   \* its position in mutate, its arguments and its outcome

custVars == <<uniqueEmail, customers, n, idx, tx, created_objs, createdIn, errors>>
shopVars == <<products, orders, links>>
vars == <<custVars, pc, resp, shopVars, inflight>>

(***************************************************************************)
(* Bounds of the model.                                                    *)
(***************************************************************************)
MaxCustomers == 3
MaxBatch == 3
MaxProducts == 4
MaxOrders == 4
MaxRequests == 2

(***************************************************************************)
(* Strings.                                                                *)
(***************************************************************************)
\* Python's None, a value that is no string of characters.
None == <<"None">>

SP == " "
NL == "\n"

\* str.isspace() of one character.
IsSpace(ch) == ch \in {SP, NL, "\t"}

\* str.lower() of one character, over the letters the inputs use.
LowerCh(ch) ==
    CASE ch = "A" -> "a"
      [] ch = "B" -> "b"
      [] ch = "C" -> "c"
      [] ch = "X" -> "x"
      [] OTHER -> ch

Lower(s) == [i \in 1..Len(s) |-> LowerCh(s[i])]

RECURSIVE LStrip(_)
LStrip(s) == IF Len(s) > 0 /\ IsSpace(s[1]) THEN LStrip(Tail(s)) ELSE s

RECURSIVE RStrip(_)
RStrip(s) ==
    IF Len(s) > 0 /\ IsSpace(s[Len(s)]) THEN RStrip(SubSeq(s, 1, Len(s) - 1)) ELSE s

\* str.strip()
strip(s) == RStrip(LStrip(s))

\* The truth value of an optional string: None and "" are false.
Truthy(s) == s # None /\ Len(s) > 0

\* An optional argument that is no string: absent (None), or one value.
Absent == <<>>
Some(v) == <<v>>

(***************************************************************************)
(* Exceptions.                                                             *)
(***************************************************************************)
\* An exception: its class, its message, and the list a message ends with.
Exc(cls, msg, ids) == [cls |-> cls, msg |-> msg, ids |-> ids]
NoExc == Exc("", "", <<>>)
GraphQLError(m) == Exc("GraphQLError", m, <<>>)
DatabaseError == Exc("DatabaseError", "storage fault", <<>>)
IntegrityError ==
    Exc("IntegrityError", "UNIQUE constraint failed: crm_customer.email", <<>>)
TransactionManagementError ==
    Exc("TransactionManagementError",
        "An error occurred in the current transaction.", <<>>)

EMAIL_EXISTS_MSG == "Email already exists."
PHONE_MSG == "Invalid phone format. Use +1234567890 or 123-456-7890."
REQUIRED_MSG == "Both name and email are required."
UNEXPECTED_PREFIX == "Unexpected error: "

(***************************************************************************)
(* Validators.                                                             *)
(***************************************************************************)
\* \d of a str pattern.
IsDigit(ch) == ch \in {"0", "1", "2", "3", "4", "5", "6", "7", "8", "9"}

AllDigits(s, from, to) == \A i \in from..to : IsDigit(s[i])

\* \+\d{10,15} over the whole of s
PlusForm(s) ==
    /\ Len(s) >= 11 /\ Len(s) <= 16
    /\ s[1] = "+"
    /\ AllDigits(s, 2, Len(s))

\* \d{3}-\d{3}-\d{4} over the whole of s
DashForm(s) ==
    /\ Len(s) = 12
    /\ AllDigits(s, 1, 3) /\ s[4] = "-"
    /\ AllDigits(s, 5, 7) /\ s[8] = "-"
    /\ AllDigits(s, 9, 12)

\* PHONE_RE.match(phone): ^ at the start; $ at the end of the string or just
\* before a newline that ends it.
PHONE_RE_match(s) ==
    LET whole(t) == PlusForm(t) \/ DashForm(t)
    IN  \/ whole(s)
        \/ Len(s) > 0 /\ s[Len(s)] = NL /\ whole(SubSeq(s, 1, Len(s) - 1))

\* Customer.objects.filter(email__iexact=email).exists() on the table `view`
EmailExists(view, email) ==
    \E i \in 1..Len(view) : Lower(view[i].email) = Lower(email)

validate_email_unique(view, email) ==
    IF EmailExists(view, email) THEN GraphQLError(EMAIL_EXISTS_MSG) ELSE NoExc

validate_phone(phone) ==
    IF Truthy(phone) /\ ~PHONE_RE_match(phone) THEN GraphQLError(PHONE_MSG) ELSE NoExc

(***************************************************************************)
(* The store.                                                              *)
(***************************************************************************)
\* The Customer model is declared in crm/models.py.  The unique constraints
\* its table can carry on email: none, the column's values distinct, or
\* distinct ignoring case.  uniqueEmail is one of them, fixed from the start.
UniquePolicies == {"none", "exact", "iexact"}

\* Whether inserting `row` into `view` breaks the table's constraint.
ViolatesUnique(view, row) ==
    \/ uniqueEmail = "exact" /\ \E i \in 1..Len(view) : view[i].email = row.email
    \/ uniqueEmail = "iexact" /\ EmailExists(view, row.email)

\* Customer(name=name.strip(), email=email.strip(), phone=phone or ""), with
\* the primary key save() gives it in `view`.
NewCustomer(view, name, email, phone) ==
    [id |-> Len(view) + 1, name |-> strip(name), email |-> strip(email),
     phone |-> IF Truthy(phone) THEN phone ELSE <<>>]

\* What Model.save() raises for `row`: the injected fault, or the constraint.
SaveExc(view, row, fault) ==
    IF fault = "save" THEN DatabaseError
    ELSE IF ViolatesUnique(view, row) THEN IntegrityError
    ELSE NoExc

(***************************************************************************)
(* Inputs.                                                                 *)
(***************************************************************************)
\* Emails, with the domain shortened to "x": a@x, A@x, " A@x" and b@x.
EA == <<"a", "@", "x">>
EUpper == <<"A", "@", "x">>
EPadded == <<SP, "A", "@", "x">>
EB == <<"b", "@", "x">>

PhoneDash == <<"1", "2", "3", "-", "4", "5", "6", "-", "7", "8", "9", "0">>
PhoneBad == <<"1", "2">>

\* CustomerInput(name, email, phone)
In(name, email, phone) == [name |-> name, email |-> email, phone |-> phone]

\* The inputs the mutations are called with: valid ones, and one for each way
\* an input can be blank, padded, a duplicate or malformed.
CustomerInputs ==
    { In(<<"A">>, EA, None),
      In(<<"C">>, EA, None),
      In(<<>>, EB, None),
      In(<<SP>>, EB, None),
      In(<<"A">>, EUpper, None),
      In(<<"A">>, EPadded, None),
      In(<<"A">>, <<SP>>, None),
      In(<<"A">>, EB, PhoneDash),
      In(<<"A">>, EB, PhoneBad) }

(***************************************************************************)
(* Responses.                                                              *)
(***************************************************************************)
\* The outcome of a call: the mutation, the arguments of a single-record
\* mutation, "ok" or "error", the exception raised and the fault met.
NoResp == [op |-> "", args |-> <<>>, status |-> "", exc |-> NoExc, fault |-> "none"]
Ok(op, args) ==
    [op |-> op, args |-> args, status |-> "ok", exc |-> NoExc, fault |-> "none"]
Raised(op, args, e, f) ==
    [op |-> op, args |-> args, status |-> "error", exc |-> e, fault |-> f]

Init ==
    /\ uniqueEmail \in UniquePolicies
    /\ customers = <<>>
    /\ pc = "idle"
    /\ n = 0
    /\ idx = 0
    /\ tx = <<>>
    /\ created_objs = <<>>
    /\ createdIn = <<>>
    /\ errors = <<>>
    /\ resp = NoResp
    /\ products = <<>>
    /\ orders = <<>>
    /\ links = {}
    /\ inflight = <<>>

(***************************************************************************)
(* CreateCustomer.mutate, in autocommit mode.                              *)
(***************************************************************************)
CreateCustomerFaults == {"none", "query", "save"}

\* The exception the call ends with (NoExc: it returns) and the fault met.
CreateCustomerOutcome(view, name, email, phone, fault) ==
    LET customer == NewCustomer(view, name, email, phone) IN
    IF fault = "query" THEN [exc |-> DatabaseError, fault |-> "query"]
    ELSE IF validate_email_unique(view, email) # NoExc
        THEN [exc |-> validate_email_unique(view, email), fault |-> "none"]
    ELSE IF validate_phone(phone) # NoExc
        THEN [exc |-> validate_phone(phone), fault |-> "none"]
    ELSE [exc |-> SaveExc(view, customer, fault),
          fault |-> IF fault = "save" THEN "save" ELSE "none"]

\* One createCustomer call, its arguments drawn from `inputs`.
CreateCustomerWith(inputs) ==
    /\ pc = "idle"
    /\ Len(customers) < MaxCustomers
    /\ \E c \in inputs, fault \in CreateCustomerFaults :
        LET out == CreateCustomerOutcome(customers, c.name, c.email, c.phone, fault) IN
        /\ customers' = IF out.exc = NoExc
                        THEN Append(customers, NewCustomer(customers, c.name, c.email, c.phone))
                        ELSE customers
        /\ resp' = IF out.exc = NoExc THEN Ok("createCustomer", <<c>>)
                   ELSE Raised("createCustomer", <<c>>, out.exc, out.fault)
    /\ tx' = customers'
    /\ pc' = "done"
    /\ UNCHANGED <<uniqueEmail, n, idx, created_objs, createdIn, errors, shopVars,
                   inflight>>

CreateCustomer == CreateCustomerWith(CustomerInputs)

(***************************************************************************)
(* BulkCreateCustomers.mutate: one outer transaction.atomic(), and for     *)
(* each item a savepoint that is released or rolled back.                  *)
(*                                                                         *)
(* Inside an atomic block Model.save() marks the connection as needing a   *)
(* rollback when its INSERT fails (needs_rollback), and until the block    *)
(* ends every further statement, ROLLBACK TO SAVEPOINT included, is        *)
(* refused with TransactionManagementError.  A failing query, SAVEPOINT or *)
(* RELEASE leaves the flag alone.                                          *)
(***************************************************************************)
ItemFaults == {"none", "savepoint", "query", "save", "release", "rollback"}

BulkErrorType(index, email, message) ==
    [index |-> index, email |-> email, message |-> message]

\* The try block of one item on the table `view`: the exception it raises
\* (NoExc: none), the fault met, the connection's needs_rollback, the table
\* after it, and whether obj was appended to created_objs.
TryBlock(view, c, fault) ==
    LET obj == NewCustomer(view, c.name, c.email, c.phone)
        end(e, f, nr, v, app) ==
            [exc |-> e, fault |-> f, needs_rollback |-> nr, view |-> v,
             appended |-> app, obj |-> obj]
    IN  IF ~Truthy(c.name) \/ ~Truthy(c.email)
            THEN end(GraphQLError(REQUIRED_MSG), "none", FALSE, view, FALSE)
        ELSE IF fault = "query"
            THEN end(DatabaseError, "query", FALSE, view, FALSE)
        ELSE IF validate_email_unique(view, c.email) # NoExc
            THEN end(validate_email_unique(view, c.email), "none", FALSE, view, FALSE)
        ELSE IF validate_phone(c.phone) # NoExc
            THEN end(validate_phone(c.phone), "none", FALSE, view, FALSE)
        ELSE IF SaveExc(view, obj, fault) # NoExc
            THEN end(SaveExc(view, obj, fault),
                     IF fault = "save" THEN "save" ELSE "none", TRUE, view, FALSE)
        ELSE IF fault = "release"
            THEN end(DatabaseError, "release", FALSE, Append(view, obj), TRUE)
        ELSE end(NoExc, "none", FALSE, Append(view, obj), TRUE)

\* transaction.savepoint_rollback(spid): the table goes back to what it was
\* when the savepoint was taken.
savepoint_rollback(atSavepoint, now) == atSavepoint

\* str(e) for a GraphQLError, "Unexpected error: " + str(e) for any other.
ErrorMessage(e) ==
    IF e.cls = "GraphQLError" THEN e.msg ELSE UNEXPECTED_PREFIX \o e.msg

\* One iteration of the loop on the table `view`: the savepoint, the try
\* block and the except clause that handles what it raised.
ProcessItem(view, c, fault) ==
    LET t == TryBlock(view, c, fault)
        escapes(e, f) ==
            [escaped |-> TRUE, exc |-> e, fault |-> f, view |-> view,
             appended |-> FALSE, obj |-> t.obj, message |-> ""]
    IN  IF fault = "savepoint" THEN escapes(DatabaseError, "savepoint")
        ELSE IF t.exc = NoExc
            THEN [escaped |-> FALSE, exc |-> NoExc, fault |-> "none", view |-> t.view,
                  appended |-> TRUE, obj |-> t.obj, message |-> ""]
        ELSE IF t.needs_rollback THEN escapes(TransactionManagementError, t.fault)
        ELSE IF fault = "rollback" THEN escapes(DatabaseError, "rollback")
        ELSE [escaped |-> FALSE, exc |-> t.exc, fault |-> t.fault,
              view |-> savepoint_rollback(view, t.view),
              appended |-> t.appended, obj |-> t.obj, message |-> ErrorMessage(t.exc)]

\* The call and its (possibly empty) list arrive; the outer atomic() opens.
BulkBegin ==
    /\ pc = "idle"
    /\ \E k \in 0..MaxBatch :
        /\ Len(customers) + k <= MaxCustomers
        /\ n' = k
    /\ pc' = "loop"
    /\ UNCHANGED <<uniqueEmail, customers, idx, tx, created_objs, createdIn, errors,
                   resp, shopVars, inflight>>

\* Mutant of RecordError: the entry is put at the head of the list.
RecordErrorFront(errs, index, c, message) ==
    <<BulkErrorType(index, c.email, message)>> \o errs
\* errors.append(BulkErrorType(index=idx, email=c.email, message=...))
RecordError(errs, index, c, message) ==
    Append(errs, BulkErrorType(index, c.email, message))

\* One iteration of "for idx, c in enumerate(customers)".  An exception that
\* escapes the loop leaves the atomic block, which rolls the transaction back.
BulkItemWith(inputs) ==
    /\ pc = "loop"
    /\ idx < n
    /\ \E c \in inputs, fault \in ItemFaults :
        LET r == ProcessItem(tx, c, fault) IN
        IF r.escaped
        THEN /\ pc' = "done"
             /\ tx' = customers
             /\ created_objs' = <<>>
             /\ errors' = <<>>
             /\ resp' = Raised("bulkCreateCustomers", <<>>, r.exc, r.fault)
             /\ UNCHANGED <<idx, createdIn>>
        ELSE /\ tx' = r.view
             /\ created_objs' = IF r.appended THEN Append(created_objs, r.obj)
                                ELSE created_objs
             /\ createdIn' = IF r.appended
                             THEN Append(createdIn, [index |-> idx, email |-> c.email])
                             ELSE createdIn
             /\ errors' = IF r.exc # NoExc THEN RecordError(errors, idx, c, r.message)
                          ELSE errors
             /\ idx' = idx + 1
             /\ UNCHANGED <<pc, resp>>
    /\ UNCHANGED <<uniqueEmail, customers, n, shopVars, inflight>>

BulkItem == BulkItemWith(CustomerInputs)

\* What the outer atomic() leaves committed when the block ends normally:
\* the transaction's table, or the old one when COMMIT fails.
CommitFaults == {"none", "commit"}
\* Mutant of Committed: the work is kept although COMMIT failed.
CommittedKeepsWork(old, work, fault) == work
Committed(old, work, fault) == IF fault = "commit" THEN old ELSE work

\* The loop is over: the outer atomic() commits and the call returns.
BulkCommit ==
    /\ pc = "loop"
    /\ idx = n
    /\ \E fault \in CommitFaults :
        /\ customers' = Committed(customers, tx, fault)
        /\ IF fault = "commit"
           THEN /\ resp' = Raised("bulkCreateCustomers", <<>>, DatabaseError, "commit")
                /\ created_objs' = <<>>
                /\ errors' = <<>>
                /\ UNCHANGED createdIn
           ELSE /\ resp' = Ok("bulkCreateCustomers", <<>>)
                /\ UNCHANGED <<created_objs, createdIn, errors>>
    /\ tx' = customers'
    /\ pc' = "done"
    /\ UNCHANGED <<uniqueEmail, n, idx, shopVars, inflight>>

\* The response (or the error) goes back to the caller; the locals of the
\* call are gone and the next request finds only the committed store.
Respond ==
    /\ pc = "done"
    /\ pc' = "idle"
    /\ n' = 0
    /\ idx' = 0
    /\ created_objs' = <<>>
    /\ createdIn' = <<>>
    /\ errors' = <<>>
    /\ resp' = NoResp
    /\ UNCHANGED <<uniqueEmail, customers, tx, shopVars, inflight>>

(***************************************************************************)
(* CreateCustomer.mutate run by several requests at once.  The mutation    *)
(* runs in autocommit mode: the query of validate_email_unique and the     *)
(* INSERT of save() are two statements, and statements of other requests   *)
(* may run between them.                                                   *)
(***************************************************************************)
Requests == 1..MaxRequests

\* A request: where it is in mutate ("idle": not yet arrived), its
\* arguments, the number of committed rows its query saw, the primary key of
\* the row it saved (0: none) and the exception it ended with.
Request(at, c, seen, row, exc) ==
    [pc |-> at, c |-> c, seen |-> seen, row |-> row, exc |-> exc]
NoRequest == Request("idle", In(<<>>, <<>>, None), 0, 0, NoExc)

RaceInputs == {In(<<"A">>, EA, None), In(<<"A">>, EUpper, None), In(<<"A">>, EB, None)}

\* An empty store, and MaxRequests requests on their way.
InitRace ==
    /\ uniqueEmail \in UniquePolicies
    /\ customers = <<>>
    /\ tx = <<>>
    /\ pc = "idle"
    /\ n = 0
    /\ idx = 0
    /\ created_objs = <<>>
    /\ createdIn = <<>>
    /\ errors = <<>>
    /\ resp = NoResp
    /\ products = <<>>
    /\ orders = <<>>
    /\ links = {}
    /\ inflight = [r \in Requests |-> NoRequest]

\* Mutant of RaceValidateOutcome: the uniqueness query is left out.
RaceValidateUnchecked(view, c) == validate_phone(c.phone)
\* Lines 98-99 of a request on the committed table `view`: the exception
\* the two validators raise.
RaceValidateOutcome(view, c) ==
    IF validate_email_unique(view, c.email) # NoExc
    THEN validate_email_unique(view, c.email)
    ELSE validate_phone(c.phone)

\* Request r arrives and runs validate_email_unique and validate_phone on
\* the committed table.
RaceValidate(r) ==
    /\ inflight[r].pc = "idle"
    /\ \E c \in RaceInputs :
        LET e == RaceValidateOutcome(customers, c) IN
        inflight' = [inflight EXCEPT
                        ![r] = Request(IF e = NoExc THEN "save" ELSE "done",
                                       c, Len(customers), 0, e)]
    /\ UNCHANGED <<custVars, pc, resp, shopVars>>

\* Request r builds the Customer and runs customer.save() on the committed
\* table as it is now, then returns.
RaceSave(r) ==
    /\ inflight[r].pc = "save"
    /\ LET c == inflight[r].c
           customer == NewCustomer(customers, c.name, c.email, c.phone)
           e == SaveExc(customers, customer, "none")
       IN  /\ customers' = IF e = NoExc THEN Append(customers, customer) ELSE customers
           /\ inflight' = [inflight EXCEPT
                               ![r] = Request("done", c, inflight[r].seen,
                                              IF e = NoExc THEN customer.id ELSE 0, e)]
    /\ tx' = customers'
    /\ UNCHANGED <<uniqueEmail, n, idx, created_objs, createdIn, errors, pc, resp,
                   shopVars>>

(***************************************************************************)
(* Products and orders.                                                    *)
(***************************************************************************)
PRICE_POSITIVE_MSG == "Price must be positive."
STOCK_NEGATIVE_MSG == "Stock cannot be negative."
PRODUCT_NAME_MSG == "Product name is required."
NO_PRODUCT_MSG == "At least one product must be selected."
INVALID_CUSTOMER_MSG == "Invalid customer ID."
CUSTOMER_NOT_FOUND_MSG == "Customer not found."
INVALID_PRODUCT_MSG == "All product IDs must be integers."
MISSING_PRODUCTS_MSG == "Invalid product ID(s): "

\* validate_price_and_stock(price, stock): the exception it raises, and the
\* (price, stock) it returns.  The price argument, and Decimal(str(price)),
\* count thousandths: 19990 is 19.99 and 1 is 0.001.
validate_price_and_stock(price, stock) ==
    IF price <= 0
        THEN [exc |-> GraphQLError(PRICE_POSITIVE_MSG), price |-> price, stock |-> 0]
    ELSE IF stock # Absent /\ stock[1] < 0
        THEN [exc |-> GraphQLError(STOCK_NEGATIVE_MSG), price |-> price, stock |-> 0]
    ELSE [exc |-> NoExc, price |-> price,
          stock |-> IF stock # Absent THEN stock[1] ELSE 0]

PName == <<"P">>
ProductNameInputs == {<<>>, <<SP>>, PName}
PriceInputs == {-1000, 0, 19990}
\* Prices with a third decimal place as well: 0.001, 0.005, 0.006, 0.015.
FinePriceInputs == PriceInputs \cup {1, 5, 6, 15}

\* The Product model is declared in crm/models.py.  Its price column is a
\* decimal column of two places: on save the value is quantised to
\* hundredths, a half going to the even neighbour.  The result counts
\* hundredths, as every stored amount does.
quantize(thousandths) ==
    LET q == thousandths \div 10
        r == thousandths % 10
    IN  IF r < 5 THEN q
        ELSE IF r > 5 THEN q + 1
        ELSE IF q % 2 = 0 THEN q ELSE q + 1
StockInputs == {Absent, Some(-1), Some(5)}
CreateProductFaults == {"none", "save"}

\* Mutant of CreateProductOutcome: the product is saved before its name is
\* checked.
CreateProductSavesFirst(view, name, price, stock, fault) ==
    LET v == validate_price_and_stock(price, stock)
        product == [id |-> Len(view) + 1, name |-> strip(name),
                    price |-> quantize(v.price), stock |-> v.stock]
    IN  IF v.exc # NoExc THEN [exc |-> v.exc, fault |-> "none", products |-> view]
        ELSE IF fault = "save"
            THEN [exc |-> DatabaseError, fault |-> "save", products |-> view]
        ELSE IF ~Truthy(strip(name))
            THEN [exc |-> GraphQLError(PRODUCT_NAME_MSG), fault |-> "none",
                  products |-> Append(view, product)]
        ELSE [exc |-> NoExc, fault |-> "none", products |-> Append(view, product)]
\* CreateProduct.mutate on the table `view`: the exception it ends with and
\* the table it leaves.
CreateProductOutcome(view, name, price, stock, fault) ==
    LET v == validate_price_and_stock(price, stock)
        product == [id |-> Len(view) + 1, name |-> strip(name),
                    price |-> quantize(v.price), stock |-> v.stock]
    IN  IF v.exc # NoExc THEN [exc |-> v.exc, fault |-> "none", products |-> view]
        ELSE IF ~Truthy(strip(name))
            THEN [exc |-> GraphQLError(PRODUCT_NAME_MSG), fault |-> "none",
                  products |-> view]
        ELSE IF fault = "save"
            THEN [exc |-> DatabaseError, fault |-> "save", products |-> view]
        ELSE [exc |-> NoExc, fault |-> "none", products |-> Append(view, product)]

\* One createProduct call, its price drawn from `prices`.
CreateProductWith(prices) ==
    /\ pc = "idle"
    /\ Len(products) < MaxProducts
    /\ \E name \in ProductNameInputs, price \in prices, stock \in StockInputs,
          fault \in CreateProductFaults :
        LET out == CreateProductOutcome(products, name, price, stock, fault) IN
        /\ products' = out.products
        /\ resp' = IF out.exc = NoExc THEN Ok("createProduct", <<name, price, stock>>)
                   ELSE Raised("createProduct", <<name, price, stock>>,
                               out.exc, out.fault)
    /\ pc' = "done"
    /\ UNCHANGED <<custVars, orders, links, inflight>>

CreateProduct == CreateProductWith(PriceInputs)
CreateProductFine == CreateProductWith(FinePriceInputs)

\* The value of a decimal digit.
DigitVal(ch) ==
    CASE ch = "0" -> 0 [] ch = "1" -> 1 [] ch = "2" -> 2 [] ch = "3" -> 3
      [] ch = "4" -> 4 [] ch = "5" -> 5 [] ch = "6" -> 6 [] ch = "7" -> 7
      [] ch = "8" -> 8 [] ch = "9" -> 9

RECURSIVE DigitsValue(_)
DigitsValue(s) ==
    IF Len(s) = 0 THEN 0
    ELSE 10 * DigitsValue(SubSeq(s, 1, Len(s) - 1)) + DigitVal(s[Len(s)])

\* int(x) for an ID: None is a TypeError; a string parses when, stripped, it is
\* an optional sign and digits, with single underscores between digits.
ParseInt(x) ==
    LET t == IF x = None THEN <<>> ELSE strip(x)
        signed == Len(t) > 0 /\ t[1] \in {"+", "-"}
        body == IF signed THEN Tail(t) ELSE t
        wellFormed ==
            /\ Len(body) > 0
            /\ \A i \in 1..Len(body) : IsDigit(body[i]) \/ body[i] = "_"
            /\ body[1] # "_" /\ body[Len(body)] # "_"
            /\ \A i \in 1..(Len(body) - 1) : ~(body[i] = "_" /\ body[i + 1] = "_")
        digits == SelectSeq(body, IsDigit)
        magnitude == DigitsValue(digits)
    IN  IF x # None /\ wellFormed
        THEN [ok |-> TRUE,
              value |-> IF signed /\ t[1] = "-" THEN 0 - magnitude ELSE magnitude]
        ELSE [ok |-> FALSE, value |-> 0]

\* Mutant of Sorted: the largest first.
RECURSIVE SortedDescending(_)
SortedDescending(S) ==
    IF S = {} THEN <<>>
    ELSE LET m == CHOOSE x \in S : \A y \in S : x >= y
         IN  <<m>> \o SortedDescending(S \ {m})
\* sorted(S) for a set of integers
RECURSIVE Sorted(_)
Sorted(S) ==
    IF S = {} THEN <<>>
    ELSE LET m == CHOOSE x \in S : \A y \in S : x <= y
         IN  <<m>> \o Sorted(S \ {m})

\* Mutant of ProductsIn: one row for each requested id, repeats included.
RECURSIVE ProductsPerId(_, _)
ProductsPerId(view, pks) ==
    IF Len(pks) = 0 THEN <<>>
    ELSE SelectSeq(view, LAMBDA p : p.id = pks[1]) \o ProductsPerId(view, Tail(pks))
\* list(Product.objects.filter(pk__in=pks)): each matching row once.
ProductsIn(view, pks) ==
    LET wanted(p) == \E i \in 1..Len(pks) : pks[i] = p.id
    IN  SelectSeq(view, wanted)

\* Mutant of total_amount: the first product's price is left out.
RECURSIVE total_amount_skip_first(_)
total_amount_skip_first(found) ==
    IF Len(found) <= 1 THEN 0
    ELSE found[Len(found)].price
         + total_amount_skip_first(SubSeq(found, 1, Len(found) - 1))
\* sum((p.price for p in products), Decimal("0.00"))
RECURSIVE total_amount(_)
total_amount(found) ==
    IF Len(found) = 0 THEN 0
    ELSE found[1].price + total_amount(Tail(found))

\* Mutant of atomic_exit: no rollback when an exception leaves the block.
atomic_exit_keeps_work(before, work, exc) == work
\* What a transaction.atomic() block leaves committed: its work when the
\* block ends normally, what was there before when an exception leaves it.
atomic_exit(before, work, exc) == IF exc = NoExc THEN work ELSE before

NOW == "now"
GivenDate == "2024-01-01"
OrderDateInputs == {Absent, Some(GivenDate)}

\* Mutant of LinkRows: the order is left without products.
LinkRowsNone(order, found) == {}
\* order.products.set(products) on a new order: one association row for
\* each product.
LinkRows(order, found) == {<<order.id, found[i].id>> : i \in 1..Len(found)}

\* The atomic block of CreateOrder.mutate: Order.objects.create(...), then
\* order.products.set(products), then the commit.  `work` is the state of the
\* open transaction where the block ends.
OrderBlock(before, customer, found, order_date, fault) ==
    LET order == [id |-> Len(before.orders) + 1,
                  customer |-> customer.id,
                  order_date |-> IF order_date # Absent THEN order_date[1] ELSE NOW,
                  total_amount |-> total_amount(found)]
        withOrder == [orders |-> Append(before.orders, order), links |-> before.links]
        withLinks == [orders |-> withOrder.orders,
                      links |-> before.links \cup LinkRows(order, found)]
    IN  IF fault = "create" THEN [exc |-> DatabaseError, work |-> before]
        ELSE IF fault = "set" THEN [exc |-> DatabaseError, work |-> withOrder]
        ELSE IF fault = "commit" THEN [exc |-> DatabaseError, work |-> withLinks]
        ELSE [exc |-> NoExc, work |-> withLinks]

CreateOrderFaults == {"none", "query", "create", "set", "commit"}

\* Mutant of CreateOrderOutcome: the product ids are parsed and looked up
\* before the customer is.
CreateOrderProductsFirst(custs, prods, before, customer_id, product_ids, order_date, fault) ==
    LET customer_pk == ParseInt(customer_id)
        matching == SelectSeq(custs, LAMBDA c : c.id = customer_pk.value)
        parsed == [i \in 1..Len(product_ids) |-> ParseInt(product_ids[i])]
        product_pks == [i \in 1..Len(product_ids) |-> parsed[i].value]
        found == ProductsIn(prods, product_pks)
        missing == {product_pks[i] : i \in 1..Len(product_pks)}
                   \ {found[i].id : i \in 1..Len(found)}
        fails(e, f) == [exc |-> e, fault |-> f, store |-> before]
        block == OrderBlock(before, matching[1], found, order_date, fault)
    IN  IF Len(product_ids) = 0 THEN fails(GraphQLError(NO_PRODUCT_MSG), "none")
        ELSE IF \E i \in 1..Len(parsed) : ~parsed[i].ok
            THEN fails(GraphQLError(INVALID_PRODUCT_MSG), "none")
        ELSE IF fault = "query" THEN fails(DatabaseError, "query")
        ELSE IF missing # {}
            THEN fails(Exc("GraphQLError", MISSING_PRODUCTS_MSG, Sorted(missing)), "none")
        ELSE IF ~customer_pk.ok THEN fails(GraphQLError(INVALID_CUSTOMER_MSG), "none")
        ELSE IF Len(matching) = 0
            THEN fails(GraphQLError(CUSTOMER_NOT_FOUND_MSG), "none")
        ELSE [exc |-> block.exc,
              fault |-> IF block.exc = NoExc THEN "none" ELSE fault,
              store |-> atomic_exit(before, block.work, block.exc)]
\* CreateOrder.mutate on the committed store: the exception it ends with, the
\* fault met, and the orders and links it leaves committed.
CreateOrderOutcome(custs, prods, before, customer_id, product_ids, order_date, fault) ==
    LET customer_pk == ParseInt(customer_id)
        matching == SelectSeq(custs, LAMBDA c : c.id = customer_pk.value)
        parsed == [i \in 1..Len(product_ids) |-> ParseInt(product_ids[i])]
        product_pks == [i \in 1..Len(product_ids) |-> parsed[i].value]
        found == ProductsIn(prods, product_pks)
        missing == {product_pks[i] : i \in 1..Len(product_pks)}
                   \ {found[i].id : i \in 1..Len(found)}
        fails(e, f) == [exc |-> e, fault |-> f, store |-> before]
        block == OrderBlock(before, matching[1], found, order_date, fault)
    IN  IF Len(product_ids) = 0 THEN fails(GraphQLError(NO_PRODUCT_MSG), "none")
        ELSE IF ~customer_pk.ok THEN fails(GraphQLError(INVALID_CUSTOMER_MSG), "none")
        ELSE IF fault = "query" THEN fails(DatabaseError, "query")
        ELSE IF Len(matching) = 0
            THEN fails(GraphQLError(CUSTOMER_NOT_FOUND_MSG), "none")
        ELSE IF \E i \in 1..Len(parsed) : ~parsed[i].ok
            THEN fails(GraphQLError(INVALID_PRODUCT_MSG), "none")
        ELSE IF missing # {}
            THEN fails(Exc("GraphQLError", MISSING_PRODUCTS_MSG, Sorted(missing)), "none")
        ELSE [exc |-> block.exc,
              fault |-> IF block.exc = NoExc THEN "none" ELSE fault,
              store |-> atomic_exit(before, block.work, block.exc)]

ID1 == <<"1">>
ID2 == <<"2">>
ID4 == <<"4">>
ID9 == <<"9">>
ID999 == <<"9", "9", "9">>
IDx == <<"x">>

CustomerIdInputs == {ID1, ID9, IDx}
ProductIdInputs ==
    { <<>>, <<ID1>>, <<ID1, ID2>>, <<ID1, ID1>>, <<ID4>>, <<ID2, ID4>>,
      <<ID1, ID2, ID999>>, <<ID999, ID9>>, <<IDx>>, <<ID1, IDx>>, <<ID999, IDx>> }

CreateOrder ==
    /\ pc = "idle"
    /\ Len(orders) < MaxOrders
    /\ \E customer_id \in CustomerIdInputs, product_ids \in ProductIdInputs,
          order_date \in OrderDateInputs, fault \in CreateOrderFaults :
        LET out == CreateOrderOutcome(customers, products,
                                      [orders |-> orders, links |-> links],
                                      customer_id, product_ids, order_date, fault)
        IN  /\ orders' = out.store.orders
            /\ links' = out.store.links
            /\ resp' = IF out.exc = NoExc
                       THEN Ok("createOrder", <<customer_id, product_ids, order_date>>)
                       ELSE Raised("createOrder",
                                   <<customer_id, product_ids, order_date>>,
                                   out.exc, out.fault)
    /\ pc' = "done"
    /\ UNCHANGED <<custVars, products, inflight>>

(***************************************************************************)
(* The store after seed_db.seed(): two customers, three products and two   *)
(* orders.                                                                 *)
(***************************************************************************)
Alice == [id |-> 1, name |-> <<"A", "l", "i", "c", "e">>,
          email |-> <<"a", "l", "i", "c", "e", "@", "e", "x", "a", "m", "p", "l", "e",
                      ".", "c", "o", "m">>,
          phone |-> <<"+", "1", "2", "3", "4", "5", "6", "7", "8", "9", "0">>]
Bob == [id |-> 2, name |-> <<"B", "o", "b">>,
        email |-> <<"b", "o", "b", "@", "e", "x", "a", "m", "p", "l", "e",
                    ".", "c", "o", "m">>,
        phone |-> PhoneDash]
Laptop == [id |-> 1, name |-> <<"L", "a", "p", "t", "o", "p">>, price |-> 99999, stock |-> 10]
Phone == [id |-> 2, name |-> <<"P", "h", "o", "n", "e">>, price |-> 49999, stock |-> 25]
Tablet == [id |-> 3, name |-> <<"T", "a", "b", "l", "e", "t">>, price |-> 29999, stock |-> 15]
SeedDate == "seed"
order1 == [id |-> 1, customer |-> Alice.id, order_date |-> SeedDate,
           total_amount |-> Laptop.price + Phone.price]
order2 == [id |-> 2, customer |-> Bob.id, order_date |-> SeedDate,
           total_amount |-> Tablet.price]

seed ==
    /\ uniqueEmail \in UniquePolicies
    /\ customers = <<Alice, Bob>>
    /\ tx = customers
    /\ products = <<Laptop, Phone, Tablet>>
    /\ orders = <<order1, order2>>
    /\ links = {<<order1.id, Laptop.id>>, <<order1.id, Phone.id>>, <<order2.id, Tablet.id>>}
    /\ pc = "idle"
    /\ n = 0
    /\ idx = 0
    /\ created_objs = <<>>
    /\ createdIn = <<>>
    /\ errors = <<>>
    /\ resp = NoResp
    /\ inflight = <<>>

(***************************************************************************)
(* Properties of the customer mutations (checked under Spec).              *)
(***************************************************************************)
BULK == "bulkCreateCustomers"
BulkReturned == pc = "done" /\ resp.op = BULK /\ resp.status = "ok"

IsPrefix(s, t) == Len(s) <= Len(t) /\ SubSeq(t, 1, Len(s)) = s

StrictlyIncreasing(s) == \A i, j \in 1..Len(s) : i < j => s[i] < s[j]

\* C1: no two persisted customers have emails that are equal ignoring case.
\* The code checks the email as given and stores it stripped, so a padded
\* email passes the check against the row it duplicates.
C1_EmailUniqueIgnoringCase ==
    \A i, j \in 1..Len(customers) :
        i # j => Lower(customers[i].email) # Lower(customers[j].email)

\* C2: when a bulk call returns, len(created) + len(errors) is the number of
\* inputs, and each input index is in exactly one of the two lists.
C2_EveryIndexExactlyOnce ==
    BulkReturned =>
        /\ Len(created_objs) + Len(errors) = n
        /\ \A i \in 0..(n - 1) :
            Cardinality({k \in 1..Len(createdIn) : createdIn[k].index = i})
            + Cardinality({k \in 1..Len(errors) : errors[k].index = i}) = 1

\* C3: at every point of a bulk call, created_objs holds objects of strictly
\* increasing input indices (each the stripped form of its input) and the
\* index fields of errors are strictly increasing.
C3_ListsInInputOrder ==
    /\ Len(createdIn) >= Len(created_objs)
    /\ StrictlyIncreasing([k \in 1..Len(createdIn) |-> createdIn[k].index])
    /\ \A k \in 1..Len(created_objs) :
        created_objs[k].email = strip(createdIn[k].email)
    /\ StrictlyIncreasing([k \in 1..Len(errors) |-> errors[k].index])
    /\ \A k \in 1..Len(errors) : errors[k].index < idx

\* C3's case: a returned batch of three whose first and last inputs failed
\* and whose middle input was created.
C3_Witness ==
    /\ BulkReturned
    /\ Len(errors) = 2 /\ errors[1].index = 0 /\ errors[2].index = 2
    /\ Len(created_objs) = 1 /\ createdIn[1].index = 1

\* C4: processing an item never discards the rows the earlier items of the
\* batch have saved (the transaction's table only grows during the loop).
C4_FailureKeepsOtherItems ==
    [][(pc = "loop" /\ idx < n) => IsPrefix(tx, tx')]_vars

\* C5: when a bulk call returns, no later created item carries the same
\* (non-blank) email as an earlier item that was created and kept.
C5_SecondOfSameEmailNotCreated ==
    BulkReturned =>
        \A k1, k2 \in 1..Len(createdIn) :
            ( /\ k1 < k2
              /\ Len(strip(createdIn[k1].email)) > 0
              /\ ~\E e \in 1..Len(errors) : errors[e].index = createdIn[k1].index )
            => createdIn[k1].email # createdIn[k2].email

\* C8: when the outer transaction cannot commit, the call fails, returns no
\* lists and leaves the committed Customer table as it was.
C8_CommitFailureKeepsNothing ==
    [][(pc = "loop" /\ resp'.fault = "commit")
        => /\ customers' = customers
           /\ resp'.status = "error"
           /\ created_objs' = <<>> /\ errors' = <<>>]_vars

\* C8's case: the commit failed after two items had been saved and their
\* savepoints released.
C8_Witness ==
    /\ pc = "done" /\ resp.op = BULK /\ resp.fault = "commit"
    /\ Len(createdIn) = 2
    /\ Len(customers) = 0

\* C9: no fault met at an item's savepoint, query, save or release makes the
\* bulk call raise.
C9_NoItemFaultEscapes ==
    ~( /\ pc = "done" /\ resp.op = BULK /\ resp.status = "error"
       /\ resp.fault \in {"savepoint", "query", "save", "release"} )

\* C10: every persisted customer has a non-empty name and a non-empty email.
C10_NameAndEmailNonEmpty ==
    \A i \in 1..Len(customers) :
        Len(customers[i].name) > 0 /\ Len(customers[i].email) > 0

\* C18: when a bulk call returns its lists, the rows it has added to the
\* committed Customer table are exactly the records of created, in order.
\* created_objs.append(obj) precedes savepoint_commit(spid), so an item
\* whose savepoint cannot be released stays in created while its row is
\* rolled back.
C18_CreatedAreTheRowsAdded ==
    [][(pc = "loop" /\ pc' = "done" /\ resp'.status = "ok")
        => customers' = customers \o created_objs']_vars

(***************************************************************************)
(* Properties of createOrder (checked under SpecShop).                     *)
(***************************************************************************)
RECURSIVE SumOver(_, _)
SumOver(S, price) ==
    IF S = {} THEN 0
    ELSE LET x == CHOOSE y \in S : TRUE
         IN  price[x] + SumOver(S \ {x}, price)

LinkedTo(o) == {p \in 1..Len(products) : <<o.id, products[p].id>> \in links}

\* C6: the total_amount of every order is the sum, in hundredths, of the
\* prices of the products linked to it.
C6_TotalIsSumOfLinkedPrices ==
    \A i \in 1..Len(orders) :
        orders[i].total_amount
        = SumOver(LinkedTo(orders[i]), [p \in 1..Len(products) |-> products[p].price])

\* C6's case: createOrder has linked the products priced 999.99 and 499.99
\* to a new order, whose total is 1499.98.
C6_Witness ==
    \E i \in 1..Len(orders) :
        /\ orders[i].order_date # SeedDate
        /\ {products[p].price : p \in LinkedTo(orders[i])} = {99999, 49999}
        /\ orders[i].total_amount = 149998

\* C7: a createOrder call that fails leaves the orders, the links and the
\* rest of the store as they were.
C7_FailedOrderLeavesStore ==
    [][(resp'.op = "createOrder" /\ resp'.status = "error")
        => /\ orders' = orders /\ links' = links
           /\ products' = products /\ customers' = customers]_vars

\* C7's case: the link assignment failed after the Order row was created.
C7_Witness ==
    pc = "done" /\ resp.op = "createOrder" /\ resp.fault = "set"

\* The arguments of the createOrder call that has just ended.
OrderCall(r) == [customer_id |-> r.args[1], product_ids |-> r.args[2],
                 order_date |-> r.args[3]]

\* The primary keys a list of IDs asks for, and those the tables hold.
RequestedPks(ids) == {ParseInt(ids[i]).value : i \in 1..Len(ids)}
ProductPks == {products[p].id : p \in 1..Len(products)}
CustomerPks == {customers[c].id : c \in 1..Len(customers)}

AllIntegers(ids) == \A i \in 1..Len(ids) : ParseInt(ids[i]).ok

\* A createOrder call that met no storage fault, for an existing customer
\* and a non-empty list of integer product ids.
WellFormedOrderCall(r) ==
    /\ r.op = "createOrder" /\ r.fault = "none"
    /\ Len(OrderCall(r).product_ids) > 0
    /\ ParseInt(OrderCall(r).customer_id).ok
    /\ ParseInt(OrderCall(r).customer_id).value \in CustomerPks
    /\ AllIntegers(OrderCall(r).product_ids)

ProductsNotFound(r) == r.status = "error" /\ r.exc.msg = MISSING_PRODUCTS_MSG

\* C11: a createOrder call for an existing customer and a non-empty list of
\* integer product ids fails with "Invalid product ID(s): ..." exactly when
\* some requested id has no Product; the message lists exactly the missing
\* ids in ascending order, and the call creates no Order.
C11_MissingProductsNamedAscending ==
    [][WellFormedOrderCall(resp') =>
        LET missing == RequestedPks(OrderCall(resp').product_ids) \ ProductPks IN
        /\ ProductsNotFound(resp') <=> missing # {}
        /\ ProductsNotFound(resp') =>
            /\ StrictlyIncreasing(resp'.exc.ids)
            /\ {resp'.exc.ids[i] : i \in 1..Len(resp'.exc.ids)} = missing
            /\ orders' = orders /\ links' = links]_vars

\* C11's case: products 1 and 2 exist, [1, 2, 999] was requested and the
\* error names [999].
C11_Witness ==
    /\ pc = "done" /\ WellFormedOrderCall(resp)
    /\ OrderCall(resp).product_ids = <<ID1, ID2, ID999>>
    /\ {1, 2} \subseteq ProductPks
    /\ ProductsNotFound(resp) /\ resp.exc.ids = <<999>>

\* The arguments of the createProduct call that has just ended.
ProductCall(r) == [name |-> r.args[1], price |-> r.args[2], stock |-> r.args[3]]

ProductCallEnded == pc = "done" /\ resp.op = "createProduct"

\* C13: every persisted product has price > 0 and stock >= 0; createProduct
\* fails with "Price must be positive." when price <= 0, and with "Stock
\* cannot be negative." when a stock < 0 is given; a product created without
\* a stock is stored with 0.
\* The price is compared with 0 before the column quantises it, so a positive
\* price below half a hundredth is accepted and stored as 0.00; and the price
\* is checked first, so a negative stock with a price <= 0 is reported as
\* the price's error.
C13_PricePositiveStockNonNegative ==
    /\ \A p \in 1..Len(products) : products[p].price > 0 /\ products[p].stock >= 0
    /\ ProductCallEnded =>
        LET a == ProductCall(resp) IN
        /\ a.price <= 0 =>
            resp.status = "error" /\ resp.exc = GraphQLError(PRICE_POSITIVE_MSG)
        /\ (a.stock # Absent /\ a.stock[1] < 0) =>
            resp.status = "error" /\ resp.exc = GraphQLError(STOCK_NEGATIVE_MSG)
        /\ (resp.status = "ok" /\ a.stock = Absent) =>
            products[Len(products)].stock = 0

OrderCreated == pc = "done" /\ resp.op = "createOrder" /\ resp.status = "ok"

\* C14: every order has exactly one customer row, and a non-empty set of
\* linked products that are all in the Product table; the order createOrder
\* has just made belongs to the customer asked for and is linked to exactly
\* the products asked for, all in the tables of the call.
C14_OrderHasCustomerAndProducts ==
    /\ \A i \in 1..Len(orders) :
        /\ Cardinality({c \in 1..Len(customers) :
                            customers[c].id = orders[i].customer}) = 1
        /\ LinkedTo(orders[i]) # {}
    /\ \A l \in links :
        /\ \E i \in 1..Len(orders) : orders[i].id = l[1]
        /\ l[2] \in ProductPks
    /\ OrderCreated =>
        LET order == orders[Len(orders)] IN
        /\ order.customer = ParseInt(OrderCall(resp).customer_id).value
        /\ order.customer \in CustomerPks
        /\ {l[2] : l \in {k \in links : k[1] = order.id}}
           = RequestedPks(OrderCall(resp).product_ids)
        /\ RequestedPks(OrderCall(resp).product_ids) \subseteq ProductPks

\* C14's case: createOrder has linked a seeded product and one made by
\* createProduct to a new order of customer 1.
C14_Witness ==
    /\ OrderCreated
    /\ OrderCall(resp).product_ids = <<ID2, ID4>>
    /\ orders[Len(orders)].customer = 1
    /\ {products[p].id : p \in LinkedTo(orders[Len(orders)])} = {2, 4}

\* The message of the first check of createOrder that the call `r` fails,
\* the checks taken in the order: the list is empty, the customer id is no
\* integer, no such customer, a product id is no integer, a product is
\* missing; "" when it passes them all.
FirstFailedCheck(r) ==
    LET a == OrderCall(r) IN
    IF Len(a.product_ids) = 0 THEN NO_PRODUCT_MSG
    ELSE IF ~ParseInt(a.customer_id).ok THEN INVALID_CUSTOMER_MSG
    ELSE IF ParseInt(a.customer_id).value \notin CustomerPks THEN CUSTOMER_NOT_FOUND_MSG
    ELSE IF ~AllIntegers(a.product_ids) THEN INVALID_PRODUCT_MSG
    ELSE IF ~(RequestedPks(a.product_ids) \subseteq ProductPks) THEN MISSING_PRODUCTS_MSG
    ELSE ""

\* C16: a createOrder call that meets no storage fault reports the first
\* check it fails, in the order EmptyProductList, InvalidCustomerId,
\* CustomerNotFound, InvalidProductId, ProductsNotFound, and succeeds when
\* it fails none.
C16_FirstFailedCheckReported ==
    (pc = "done" /\ resp.op = "createOrder" /\ resp.fault = "none") =>
        /\ resp.exc.msg = FirstFailedCheck(resp)
        /\ resp.status = "ok" <=> FirstFailedCheck(resp) = ""
        /\ resp.status = "error" => resp.exc.cls = "GraphQLError"

\* C16's case: neither the customer nor the products exist, and the call
\* reports "Customer not found.".
C16_Witness ==
    /\ pc = "done" /\ resp.op = "createOrder"
    /\ OrderCall(resp).customer_id = ID9
    /\ OrderCall(resp).product_ids = <<ID999, ID9>>
    /\ resp.exc = GraphQLError(CUSTOMER_NOT_FOUND_MSG)

HasRepeat(ids) ==
    \E i, j \in 1..Len(ids) : i < j /\ ParseInt(ids[i]).value = ParseInt(ids[j]).value

\* C19: a createOrder call whose list repeats the id of an existing product
\* (customer and products existing, no storage fault) succeeds; the order
\* is linked once to each distinct product asked for, and its total_amount
\* counts each of their prices once.
C19_RepeatedIdCountedOnce ==
    ( /\ pc = "done" /\ WellFormedOrderCall(resp)
      /\ HasRepeat(OrderCall(resp).product_ids)
      /\ RequestedPks(OrderCall(resp).product_ids) \subseteq ProductPks ) =>
        LET order == orders[Len(orders)]
            wanted == {p \in 1..Len(products) :
                          products[p].id \in RequestedPks(OrderCall(resp).product_ids)}
        IN  /\ resp.status = "ok"
            /\ LinkedTo(order) = wanted
            /\ Cardinality({l \in links : l[1] = order.id}) = Cardinality(wanted)
            /\ order.total_amount
               = SumOver(wanted, [p \in 1..Len(products) |-> products[p].price])

\* C19's case: [1, 1] was asked for; the order has one link, to product 1,
\* and its total is the price of product 1, 999.99.
C19_Witness ==
    /\ OrderCreated
    /\ OrderCall(resp).product_ids = <<ID1, ID1>>
    /\ {l \in links : l[1] = orders[Len(orders)].id} = {<<orders[Len(orders)].id, 1>>}
    /\ orders[Len(orders)].total_amount = 99999

(***************************************************************************)
(* Properties of the phone check (checked under SpecPhone).                *)
(***************************************************************************)
Digits(k) == [i \in 1..k |-> <<"7", "0", "1", "2", "3", "4", "5", "6", "8", "9">>[(i % 10) + 1]]

\* Phones: the two accepted forms at the ends of their ranges, and phones
\* that are too short, too long, padded, or followed by line ends.
Plus9 == <<"+">> \o Digits(9)
Plus10 == <<"+">> \o Digits(10)
Plus15 == <<"+">> \o Digits(15)
Plus16 == <<"+">> \o Digits(16)
PhoneInputs ==
    { None, <<>>, PhoneDash, Plus9, Plus10, Plus15, Plus16, PhoneBad,
      <<SP>> \o PhoneDash, PhoneDash \o <<SP>>, <<"x">> \o PhoneDash,
      PhoneDash \o <<NL>>, Plus10 \o <<NL>>, PhoneDash \o <<NL, NL>> }

PhoneCustomerInputs == {In(<<"A">>, email, phone) : email \in {EA, EB}, phone \in PhoneInputs}

CreateCustomerPhone == CreateCustomerWith(PhoneCustomerInputs)
BulkItemPhone == BulkItemWith(PhoneCustomerInputs)

\* The two formats, with nothing before or after.
WellFormedPhone(phone) == PlusForm(phone) \/ DashForm(phone)

\* C15: the phone of every persisted customer is empty or is '+' and 10 to
\* 15 digits, or 3 digits, '-', 3 digits, '-', 4 digits, and nothing else;
\* a createCustomer call with any other non-empty phone does not succeed.
\* PHONE_RE ends with $, which also matches before a final newline, so a
\* phone followed by a line end passes and is stored as given.
C15_StoredPhoneWellFormed ==
    /\ \A i \in 1..Len(customers) :
        customers[i].phone = <<>> \/ WellFormedPhone(customers[i].phone)
    /\ (pc = "done" /\ resp.op = "createCustomer" /\ resp.status = "ok") =>
        \/ ~Truthy(resp.args[1].phone)
        \/ WellFormedPhone(resp.args[1].phone)

(***************************************************************************)
(* Properties of the single-record mutations (checked under SpecSingle).   *)
(***************************************************************************)
\* Alice's seeded email with a capital, and the calls made on the seeded
\* store: a new customer, a duplicate of Alice ignoring case, a bad phone.
AliceUpper == <<"A">> \o Tail(Alice.email)
SeededCustomerInputs ==
    { In(<<"A">>, EA, None),
      In(<<"A">>, AliceUpper, None),
      In(<<"A">>, EB, PhoneBad) }

CreateCustomerSeeded == CreateCustomerWith(SeededCustomerInputs)

SingleOps == {"createCustomer", "createProduct", "createOrder"}

\* The call that has just ended was refused by a validation (a GraphQLError
\* raised by the mutation).
ValidationFailure(r) ==
    r.op \in SingleOps /\ r.status = "error" /\ r.exc.cls = "GraphQLError"

\* C12: a single-record mutation refused by a validation leaves customers,
\* products, orders and links as they were; one that succeeds adds exactly
\* one row to its own table (and, for an order, its links only).
C12_FailedSingleCallWritesNothing ==
    [][/\ ValidationFailure(resp') =>
            /\ customers' = customers /\ products' = products
            /\ orders' = orders /\ links' = links
       /\ (resp'.op \in SingleOps /\ resp'.status = "ok") =>
            /\ Len(customers') + Len(products') + Len(orders')
               = Len(customers) + Len(products) + Len(orders) + 1
            /\ IsPrefix(customers, customers') /\ IsPrefix(products, products')
            /\ IsPrefix(orders, orders') /\ links \subseteq links'
            /\ \A l \in links' \ links :
                   Len(orders') > Len(orders) /\ l[1] = orders'[Len(orders')].id
      ]_vars

\* C12's case: createCustomer was refused because the email duplicates a
\* stored one ignoring case, on a store that holds products and orders.
C12_Witness ==
    /\ pc = "done" /\ ValidationFailure(resp)
    /\ resp.op = "createCustomer" /\ resp.exc.msg = EMAIL_EXISTS_MSG
    /\ Len(orders) > 0 /\ Len(products) > 0

Next ==
    \/ CreateCustomer
    \/ BulkBegin
    \/ BulkItem
    \/ BulkCommit
    \/ Respond

\* The customer mutations, from an empty store.
Spec == Init /\ [][Next]_vars

NextShop ==
    \/ CreateProduct
    \/ CreateOrder
    \/ Respond

\* The product and order mutations, from the seeded store.
SpecShop == seed /\ [][NextShop]_vars

NextPhone ==
    \/ CreateCustomerPhone
    \/ BulkBegin
    \/ BulkItemPhone
    \/ BulkCommit
    \/ Respond

\* The customer mutations called with every kind of phone, from an empty
\* store.
SpecPhone == Init /\ [][NextPhone]_vars

(***************************************************************************)
(* Properties of concurrent createCustomer requests (checked under         *)
(* SpecRace).                                                              *)
(***************************************************************************)
\* The request that saved the row with primary key `id`.
SavedBy(id) == CHOOSE r \in Requests : inflight[r].row = id

\* C17: two rows with emails equal ignoring case are persisted only by
\* requests that overlapped (the later row's request ran its uniqueness
\* query before the earlier row was saved) and only when the store did not
\* reject the second insert: never under a case-insensitive unique
\* constraint, and with identical emails only without a constraint.
C17_DuplicatesOnlyByRace ==
    \A i, j \in 1..Len(customers) :
        (i < j /\ Lower(customers[i].email) = Lower(customers[j].email)) =>
            /\ \E r \in Requests : inflight[r].row = customers[j].id
            /\ inflight[SavedBy(customers[j].id)].seen < i
            /\ uniqueEmail # "iexact"
            /\ customers[i].email = customers[j].email => uniqueEmail = "none"

\* C17's case: without a constraint, two requests with the same email both
\* passed validate_email_unique on the empty table, and both rows are
\* persisted.
C17_Witness ==
    /\ uniqueEmail = "none"
    /\ \E r1, r2 \in Requests :
        /\ r1 # r2
        /\ inflight[r1].pc = "done" /\ inflight[r2].pc = "done"
        /\ inflight[r1].exc = NoExc /\ inflight[r2].exc = NoExc
        /\ inflight[r1].c.email = EA /\ inflight[r2].c.email = EA
        /\ inflight[r1].seen = 0 /\ inflight[r2].seen = 0
    /\ Len(customers) = 2
    /\ customers[1].email = EA /\ customers[2].email = EA

NextRace == \E r \in Requests : RaceValidate(r) \/ RaceSave(r)

\* Concurrent createCustomer requests, from an empty store.
SpecRace == InitRace /\ [][NextRace]_vars

NextProduct ==
    \/ CreateProductFine
    \/ Respond

\* createProduct called with prices of up to three places, from the seeded
\* store.
SpecProduct == seed /\ [][NextProduct]_vars

NextSingle ==
    \/ CreateCustomerSeeded
    \/ CreateProduct
    \/ CreateOrder
    \/ Respond

\* The three single-record mutations, from the seeded store.
SpecSingle == seed /\ [][NextSingle]_vars
====
